---- MODULE Spec2Model ----
(***************************************************************************)
(* Model of the WM assistant backend's support knowledge store             *)
(* (backend/src/services/support_db_service.py) and of the entry           *)
(* validation it relies on (backend/src/models/support_entry.py).          *)
(*                                                                         *)
(* Text is a sequence of one-character strings, so that lower(), strip(),  *)
(* split() and the substring test `a in b` are computed, not assumed.      *)
(***************************************************************************)
EXTENDS Integers, Sequences, FiniteSets, TLC

(***************************************************************************)
(* Bounds of the model.                                                    *)
(***************************************************************************)
\* longest JSON array offered to load_database
MaxFileLen == 3
\* number of load_database calls in one behaviour (the logical clock stops there)
MaxLoads == 2

(***************************************************************************)
(* Python str helpers.                                                     *)
(***************************************************************************)
\* str.isspace() of one character
IsSpace(c) ==
  c \in {" ", "\t"}

\* str.lower() of one character
LowerChar(c) ==
  CASE c = "A" -> "a"
    [] c = "B" -> "b"
    [] c = "C" -> "c"
    [] c = "X" -> "x"
    [] OTHER -> c

RECURSIVE Lower(_)
\* str.lower()
Lower(s) ==
  IF s = <<>> THEN <<>> ELSE <<LowerChar(Head(s))>> \o Lower(Tail(s))

\* str.strip(): drop leading and trailing whitespace
Strip(s) ==
  LET nonsp == {i \in 1..Len(s) : ~IsSpace(s[i])}
  IN  IF nonsp = {} THEN <<>>
      ELSE LET lo == CHOOSE i \in nonsp : \A j \in nonsp : i <= j
               hi == CHOOSE i \in nonsp : \A j \in nonsp : j <= i
           IN  SubSeq(s, lo, hi)

RECURSIVE SplitFrom(_, _, _)
\* str.split() with no separator: maximal runs of non-whitespace, left to right
SplitFrom(s, i, cur) ==
  IF i > Len(s)
    THEN IF cur = <<>> THEN <<>> ELSE <<cur>>
    ELSE IF IsSpace(s[i])
           THEN (IF cur = <<>> THEN <<>> ELSE <<cur>>) \o SplitFrom(s, i + 1, <<>>)
           ELSE SplitFrom(s, i + 1, Append(cur, s[i]))

Split(s) ==
  SplitFrom(s, 1, <<>>)

\* the Python test `a in b` on strings
IsSubstr(a, b) ==
  \E i \in 0..(Len(b) - Len(a)) : \A j \in 1..Len(a) : b[i + j] = a[j]

\* str.startswith(p)
StartsWith(s, p) ==
  Len(s) >= Len(p) /\ SubSeq(s, 1, Len(p)) = p

\* str.isalnum(): non-empty and every character a letter or a digit
IsAlnum(s) ==
  /\ s # <<>>
  /\ \A i \in 1..Len(s) :
       s[i] \in {"a", "b", "c", "e", "x", "A", "B", "C", "X", "0", "1", "2", "3"}

\* str.replace(ch, '')
Remove(s, ch) ==
  SelectSeq(s, LAMBDA c : c # ch)

(***************************************************************************)
(* JSON values of the knowledge base file.  A value carries its JSON type; *)
(* an object carries its members as a record, so a missing member is a     *)
(* name outside DOMAIN.  An exception is the empty sequence, a returned    *)
(* value v is <<v>>.                                                       *)
(***************************************************************************)
Raise ==
  <<>>

Return(v) ==
  <<v>>

JObject(members) ==
  [type |-> "object", members |-> members]

JArray(items) ==
  [type |-> "array", items |-> items]

JNumber ==
  [type |-> "number"]

JNull ==
  [type |-> "null"]

\* minimum length of the trimmed content (validate_content)
MinContentLen == 10

\* the closed set of support categories (validate_category)
valid_categories ==
  {"Service Changes", "Container Guidelines", "Safety & Health",
   "Additional Services", "Billing", "Service Issues", "Recycling",
   "Service Questions", "Products & Services"}

\* SupportEntry.validate_id: TRUE when the validator raises
validate_id_raises(v) ==
  v = <<>> \/ ~IsAlnum(Remove(Remove(v, "-"), "_"))

\* SupportEntry.validate_title
validate_title(v) ==
  IF v = <<>> \/ Strip(v) = <<>> THEN Raise ELSE Return(Strip(v))

\* SupportEntry.validate_category: TRUE when the validator raises
validate_category_raises(v) ==
  v \notin valid_categories

\* SupportEntry.validate_keywords: blank keywords are dropped after the
\* emptiness test, so a list of blank keywords is accepted as the empty list
validate_keywords(v) ==
  IF Len(v) = 0 THEN Raise
  ELSE Return(SelectSeq([i \in 1..Len(v) |-> Strip(v[i])], LAMBDA k : k # <<>>))

\* validate_content that returns the content as given, untrimmed
validate_content_NoTrim(v) ==
  IF v = <<>> \/ Strip(v) = <<>> THEN Raise
  ELSE IF Len(Strip(v)) < MinContentLen THEN Raise
  ELSE Return(v)

\* SupportEntry.validate_content
validate_content(v) ==
  IF v = <<>> \/ Strip(v) = <<>> THEN Raise
  ELSE IF Len(Strip(v)) < MinContentLen THEN Raise
  ELSE Return(Strip(v))

\* SupportEntry.validate_url; url is <<>> for None and <<u>> for the string u
validate_url_raises(v) ==
  /\ v # <<>>
  /\ ~StartsWith(v[1], <<"h", "t", "t", "p", ":", "/", "/">>)
  /\ ~StartsWith(v[1], <<"h", "t", "t", "p", "s", ":", "/", "/">>)

\* the required fields of SupportEntry (Field(...))
RequiredFields ==
  {"id", "title", "category", "keywords", "content"}

\* SupportEntry(**members): the constructed entry, or Raise on a validation error
SupportEntry(members) ==
  IF ~(RequiredFields \subseteq DOMAIN members) THEN Raise
  ELSE LET url == IF "url" \in DOMAIN members THEN <<members.url>> ELSE <<>>
       IN  IF \/ validate_id_raises(members.id)
              \/ validate_title(members.title) = Raise
              \/ validate_category_raises(members.category)
              \/ validate_keywords(members.keywords) = Raise
              \/ validate_content(members.content) = Raise
              \/ validate_url_raises(url)
           THEN Raise
           ELSE Return([id       |-> members.id,
                        title    |-> validate_title(members.title)[1],
                        category |-> members.category,
                        keywords |-> validate_keywords(members.keywords)[1],
                        content  |-> validate_content(members.content)[1],
                        url      |-> url])

(***************************************************************************)
(* The knowledge base files offered to load_database.                      *)
(***************************************************************************)
Filler ==
  <<"x", "x", "x", "x", "x", "x", "x", "x", "x">>

Https ==
  <<"h", "t", "t", "p", "s", ":", "/", "/", "x">>

\* title "a b", keyword "a"
ItemE1 ==
  JObject([id |-> <<"e", "1">>, title |-> <<"a", " ", "b">>, category |-> "Billing",
           keywords |-> << <<"a">> >>, content |-> Filler \o <<"x">>, url |-> Https])

\* title "B a", keywords "ab" and "c", content ending in the word "c"; no url
ItemE2 ==
  JObject([id |-> <<"e", "2">>, title |-> <<"B", " ", "a">>, category |-> "Recycling",
           keywords |-> << <<"a", "b">>, <<"c">> >>, content |-> Filler \o <<" ", "c">>])

\* same id as ItemE1; padded title "c" and padded content ending in the words
\* "a b"; its one keyword is blank, so it is accepted and stored with no keyword
ItemE3 ==
  JObject([id |-> <<"e", "1">>, title |-> <<" ", "c", " ">>, category |-> "Billing",
           keywords |-> << <<" ">> >>,
           content |-> <<" ">> \o Filler \o <<" ", "a", " ", "b", " ">>, url |-> Https])

\* an object without the required member content
ItemNoContent ==
  JObject([id |-> <<"e", "2">>, title |-> <<"a">>, category |-> "Billing",
           keywords |-> << <<"a">> >>])

\* the elements a JSON array of the file is made of
Items ==
  <<ItemE1, ItemE2, ItemE3, ItemNoContent, JNumber>>

\* the object with one member replaced
WithMember(item, name, value) ==
  JObject([item.members EXCEPT ![name] = value])

\* objects that differ from ItemE1 in one member: an id with a character that
\* is not URL-safe, an id of a hyphen and an underscore only, an id with a
\* hyphen and an underscore, a blank title, a category outside the closed
\* set, a content of nine characters between blanks, a url of another scheme,
\* an http url
FieldItems ==
  <<WithMember(ItemE1, "id", <<"e", "!">>),
    WithMember(ItemE1, "id", <<"-", "_">>),
    WithMember(ItemE1, "id", <<"e", "-", "_", "1">>),
    WithMember(ItemE1, "title", <<" ">>),
    WithMember(ItemE1, "category", "Other"),
    WithMember(ItemE1, "content", <<" ">> \o Filler \o <<" ">>),
    WithMember(ItemE1, "url", <<"f", "t", "p", ":", "/", "/", "x">>),
    WithMember(ItemE1, "url", <<"h", "t", "t", "p", ":", "/", "/", "x">>)>>

\* an array of four valid objects, more than the chat endpoint asks
\* search_entries for: ItemE1, ItemE2, ItemE3 and ItemE1 with an http url
FourItems ==
  <<ItemE1, ItemE2, ItemE3, FieldItems[Len(FieldItems)]>>

RECURSIVE Power(_, _)
Power(b, n) ==
  IF n = 0 THEN 1 ELSE b * Power(b, n - 1)

\* the array of length n numbered code: its k-th element is the k-th digit of
\* code in base Len(Items)
ArrayOf(n, code) ==
  [k \in 1..n |-> Items[((code \div Power(Len(Items), k - 1)) % Len(Items)) + 1]]

\* the file at support_database_path: absent, not parseable, or a JSON value
FileMissing ==
  [exists |-> FALSE]

FileNotJson ==
  [exists |-> TRUE, parses |-> FALSE]

JsonFile(data) ==
  [exists |-> TRUE, parses |-> TRUE, data |-> data]

\* the files offered to load_database, each named by its kind and, for an
\* array of Items, the length and the number of the array, for the array of
\* one of the FieldItems, the position of that item; and the array FourItems
Files ==
  {<<"missing", 0, 0>>, <<"not json", 0, 0>>, <<"object", 0, 0>>, <<"null", 0, 0>>}
    \cup UNION {{<<"array", n, code>> : code \in 0..(Power(Len(Items), n) - 1)} :
                 n \in 0..MaxFileLen}
    \cup {<<"array of one", k, 0>> : k \in 1..Len(FieldItems)}
    \cup {<<"array of four", 0, 0>>}

\* what open() and json.load() find in a file
Disk(file) ==
  CASE file[1] = "missing" -> FileMissing
    [] file[1] = "not json" -> FileNotJson
    [] file[1] = "object" -> JsonFile(ItemE1)
    [] file[1] = "null" -> JsonFile(JNull)
    [] file[1] = "array of one" -> JsonFile(JArray(<<FieldItems[file[2]]>>))
    [] file[1] = "array of four" -> JsonFile(JArray(FourItems))
    [] OTHER -> JsonFile(JArray(ArrayOf(file[2], file[3])))

(***************************************************************************)
(* State of the process: its SupportDBService and its OpenAIService, the   *)
(* application that was started around them, the search_entries calls in   *)
(* progress on concurrent threads, and a ChatSession.  An index holds      *)
(* references to the entry objects of _entries, written as positions in    *)
(* that list.                                                              *)
(***************************************************************************)
VARIABLES
  _entries,              \* self._entries: the SupportEntry objects in load order
  _entries_by_id,        \* self._entries_by_id: id -> reference
  _entries_by_category,  \* self._entries_by_category: category -> list of references
  _last_loaded,          \* self._last_loaded: <<>> for None, <<t>> for a datetime
  now,                   \* the clock read by datetime.utcnow()
  _initialized,          \* OpenAIService._initialized
  app,                   \* the entry point that was run and how far its start-up got
  tasks,                 \* thread -> the locals of its search_entries call
  session,               \* <<>>, or <<s>> for the ChatSession object s
  call                   \* the last call made by the process and what it returned

vars ==
  <<_entries, _entries_by_id, _entries_by_category, _last_loaded, now, _initialized,
    app, tasks, session, call>>

\* the threads that call search_entries concurrently
Threads ==
  {"t1", "t2"}

\* a thread that is not inside search_entries
Idle ==
  [pc |-> "idle"]

\* no entry point has run yet
NotStarted ==
  [entry |-> "none", status |-> "not started", load_ok |-> FALSE, database_ok |-> FALSE]

\* an empty dict
EmptyDict ==
  [k \in {} |-> k]

\* d[k] = v on a dict
DictSet(d, k, v) ==
  [x \in DOMAIN d \cup {k} |-> IF x = k THEN v ELSE d[x]]

\* the three collections of the service as one value
Store(entries, by_id, by_category) ==
  [entries |-> entries, by_id |-> by_id, by_category |-> by_category]

\* AddEntry that assigns the category's list anew instead of appending to it
AddEntry_CategoryOverwritten(st, entry) ==
  LET ref == Len(st.entries) + 1
  IN  Store(Append(st.entries, entry),
            DictSet(st.by_id, entry.id, ref),
            DictSet(st.by_category, entry.category, <<ref>>))

\* load_database, body of the per-item try: append the entry and index it
AddEntry(st, entry) ==
  LET ref == Len(st.entries) + 1
      cat == IF entry.category \in DOMAIN st.by_category
               THEN st.by_category[entry.category] ELSE <<>>
  IN  Store(Append(st.entries, entry),
            DictSet(st.by_id, entry.id, ref),
            DictSet(st.by_category, entry.category, Append(cat, ref)))

RECURSIVE LoadItems_AbortOnInvalid(_, _, _)
\* LoadItems whose handler leaves the loop (break) instead of continuing
LoadItems_AbortOnInvalid(items, i, st) ==
  IF i > Len(items) THEN [ok |-> TRUE, st |-> st]
  ELSE IF items[i].type # "object" THEN [ok |-> FALSE, st |-> st]
  ELSE LET made == SupportEntry(items[i].members)
       IN  IF made = Raise THEN [ok |-> TRUE, st |-> st]
           ELSE LoadItems_AbortOnInvalid(items, i + 1, AddEntry(st, made[1]))

RECURSIVE LoadItems(_, _, _)
\* load_database, the loop over the array: an object that fails validation is
\* skipped; for an element that is no object SupportEntry(**item) raises and
\* so does item.get in the handler, which ends the loop through the outer except
LoadItems(items, i, st) ==
  IF i > Len(items) THEN [ok |-> TRUE, st |-> st]
  ELSE IF items[i].type # "object" THEN [ok |-> FALSE, st |-> st]
  ELSE LET made == SupportEntry(items[i].members)
       IN  IF made = Raise THEN LoadItems(items, i + 1, st)
           ELSE LoadItems(items, i + 1, AddEntry(st, made[1]))

\* load_database after the isinstance test, for each array file
Loaded ==
  [file \in {f \in Files : f[1] \in {"array", "array of one", "array of four"}} |->
     LoadItems(Disk(file).data.items, 1, Store(<<>>, EmptyDict, EmptyDict))]

Init ==
  /\ _entries = <<>>
  /\ _entries_by_id = EmptyDict
  /\ _entries_by_category = EmptyDict
  /\ _last_loaded = <<>>
  /\ now = 0
  /\ _initialized = FALSE
  /\ app = NotStarted
  /\ tasks = [t \in Threads |-> Idle]
  /\ session = <<>>
  /\ call = [op |-> "init"]

\* SupportDBService.load_database with the file as it is on disk; app and
\* _initialized are left to the caller, an entry point or a later call
load_database(file) ==
  /\ now < MaxLoads
  /\ now' = now + 1
  /\ UNCHANGED <<tasks, session>>
  /\ IF ~Disk(file).exists \/ ~Disk(file).parses \/ Disk(file).data.type # "array"
       THEN /\ UNCHANGED <<_entries, _entries_by_id, _entries_by_category, _last_loaded>>
            /\ call' = [op |-> "load", file |-> file, ret |-> FALSE]
       ELSE LET done == Loaded[file]
            IN  /\ _entries' = done.st.entries
                /\ _entries_by_id' = done.st.by_id
                /\ _entries_by_category' = done.st.by_category
                /\ _last_loaded' = IF done.ok THEN <<now'>> ELSE _last_loaded
                /\ call' = [op |-> "load", file |-> file, ret |-> done.ok]

(***************************************************************************)
(* search_entries.                                                         *)
(***************************************************************************)
\* search_entries: query_words, the words of the normalised query, as a list
query_words(query_lower) ==
  SelectSeq([i \in 1..Len(Split(query_lower)) |-> Strip(Split(query_lower)[i])],
            LAMBDA w : w # <<>>)

\* one `for word in query_words: if word in text` loop: the number of hits
CountHits(words, text) ==
  Cardinality({i \in 1..Len(words) : IsSubstr(words[i], text)})

\* search_entries, the title block, given title_lower = entry.title.lower()
TitleScore(title_lower, query_lower, words) ==
  IF IsSubstr(query_lower, title_lower)
    THEN 5
    ELSE 2 * CountHits(words, title_lower)

\* KeywordScore without the test `keyword_lower in query_lower`
KeywordScore_OneWay(keyword_lower, query_lower, words) ==
  IF IsSubstr(query_lower, keyword_lower)
    THEN 4
    ELSE 2 * CountHits(words, keyword_lower)

\* search_entries, the body of the loop over entry.keywords, given
\* keyword_lower = keyword.lower()
KeywordScore(keyword_lower, query_lower, words) ==
  IF IsSubstr(query_lower, keyword_lower) \/ IsSubstr(keyword_lower, query_lower)
    THEN 4
    ELSE 2 * CountHits(words, keyword_lower)

RECURSIVE KeywordsScore(_, _, _, _)
\* search_entries, the loop over entry.keywords
KeywordsScore(keywords, i, query_lower, words) ==
  IF i > Len(keywords) THEN 0
  ELSE KeywordScore(Lower(keywords[i]), query_lower, words)
         + KeywordsScore(keywords, i + 1, query_lower, words)

\* search_entries, the content block, given content_lower
ContentScore(content_lower, words) ==
  CountHits(words, content_lower)

\* search_entries: the score of one entry at the end of the loop body
EntryScore(entry, query_lower, words) ==
  TitleScore(Lower(entry.title), query_lower, words)
    + KeywordsScore(entry.keywords, 1, query_lower, words)
    + ContentScore(Lower(entry.content), words)

\* `if score > 0: results.append((entry, score))`
KeepPositive(ref, score) ==
  IF score > 0 THEN <<[ref |-> ref, score |-> score]>> ELSE <<>>

\* KeepPositive with the test `score >= 0`
KeepAll(ref, score) ==
  IF score >= 0 THEN <<[ref |-> ref, score |-> score]>> ELSE <<>>

RECURSIVE ScoreEntries_KeepZero(_, _, _, _)
\* ScoreEntries with the test `score >= 0` in place of `score > 0`
ScoreEntries_KeepZero(entries, i, query_lower, words) ==
  IF i > Len(entries) THEN <<>>
  ELSE KeepAll(i, EntryScore(entries[i], query_lower, words))
         \o ScoreEntries_KeepZero(entries, i + 1, query_lower, words)

RECURSIVE ScoreEntries(_, _, _, _)
\* search_entries, the loop over self._entries: the (reference, score) pairs
\* of the entries with a positive score, in store order
ScoreEntries(entries, i, query_lower, words) ==
  IF i > Len(entries) THEN <<>>
  ELSE KeepPositive(i, EntryScore(entries[i], query_lower, words))
         \o ScoreEntries(entries, i + 1, query_lower, words)

\* InsertByScore of a sort that is not stable: x goes ahead of equal scores
InsertByScore_Unstable(sorted, x) ==
  LET ahead == {k \in 1..Len(sorted) : sorted[k].score > x.score}
      n == Cardinality(ahead)
  IN  SubSeq(sorted, 1, n) \o <<x>> \o SubSeq(sorted, n + 1, Len(sorted))

\* one step of list.sort(key=score, reverse=True): x goes behind every pair
\* whose score is at least its own, which keeps equal scores in list order
InsertByScore(sorted, x) ==
  LET ahead == {k \in 1..Len(sorted) : sorted[k].score >= x.score}
      n == Cardinality(ahead)
  IN  SubSeq(sorted, 1, n) \o <<x>> \o SubSeq(sorted, n + 1, Len(sorted))

RECURSIVE SortByScore(_, _, _)
\* results.sort(key=lambda x: x[1], reverse=True)
SortByScore(results, i, sorted) ==
  IF i > Len(results) THEN sorted
  ELSE SortByScore(results, i + 1, InsertByScore(sorted, results[i]))

\* SliceTo of the slice results[:limit + 1]
SliceTo_OffByOne(results, limit) ==
  IF limit + 1 >= 0
    THEN SubSeq(results, 1, IF limit + 1 < Len(results) THEN limit + 1 ELSE Len(results))
    ELSE SubSeq(results, 1, Len(results) + limit + 1)

\* the Python slice results[:limit]
SliceTo(results, limit) ==
  IF limit >= 0
    THEN SubSeq(results, 1, IF limit < Len(results) THEN limit ELSE Len(results))
    ELSE SubSeq(results, 1, Len(results) + limit)

\* search_entries(self, query, limit=10)
DefaultLimit == 10

\* the queries offered to search_entries
Queries ==
  {<<>>, <<" ">>, <<"a">>, <<"B">>, <<" ", "c", " ">>, <<"a", " ", "b">>,
   <<"a", " ", "a">>}

\* the limits offered to search_entries
Limits ==
  {-1, 0, 2, DefaultLimit}

\* TRUE when a call of search_entries repeats the call before it
Repeats(query, limit) ==
  call.op = "search" /\ call.query = query /\ call.limit = limit

\* the references held by a list of (reference, score) pairs
Refs(pairs) ==
  [k \in 1..Len(pairs) |-> pairs[k].ref]

\* the record of a search_entries call: its arguments, the sorted local list
\* results, and the returned list `[entry for entry, _ in results[:limit]]`
SearchCall(query, limit, results) ==
  [op |-> "search", query |-> query, limit |-> limit, repeat |-> Repeats(query, limit),
   results |-> results, ret |-> Refs(SliceTo(results, limit))]

\* search_entries from the scoring loop to the sort, given
\* query_lower = query.lower().strip()
RankEntries(entries, query_lower) ==
  SortByScore(ScoreEntries(entries, 1, query_lower, query_words(query_lower)), 1, <<>>)

\* search_entries without the test `not query.strip()`
search_entries_NoStripTest(query, limit) ==
  /\ IF query = <<>>
       THEN call' = SearchCall(query, limit, <<>>)
       ELSE call' = SearchCall(query, limit, RankEntries(_entries, Strip(Lower(query))))
  /\ UNCHANGED <<_entries, _entries_by_id, _entries_by_category, _last_loaded, now,
                 _initialized, app, tasks, session>>

\* the entry list sorted by score, as self._entries.sort(...) would leave it
SortedEntries(entries, query_lower) ==
  LET order == SortByScore(ScoreEntries_KeepZero(entries, 1, query_lower,
                                                 query_words(query_lower)), 1, <<>>)
  IN  [k \in 1..Len(order) |-> entries[order[k].ref]]

\* search_entries that sorts self._entries itself by score before scoring
search_entries_SortInPlace(query, limit) ==
  /\ IF query = <<>> \/ Strip(query) = <<>>
       THEN /\ call' = SearchCall(query, limit, <<>>)
            /\ _entries' = _entries
       ELSE /\ _entries' = SortedEntries(_entries, Strip(Lower(query)))
            /\ call' = SearchCall(query, limit, RankEntries(_entries', Strip(Lower(query))))
  /\ UNCHANGED <<_entries_by_id, _entries_by_category, _last_loaded, now, _initialized,
                 app, tasks, session>>

\* SupportDBService.search_entries
search_entries(query, limit) ==
  /\ IF query = <<>> \/ Strip(query) = <<>>
       THEN call' = SearchCall(query, limit, <<>>)
       ELSE call' = SearchCall(query, limit, RankEntries(_entries, Strip(Lower(query))))
  /\ UNCHANGED <<_entries, _entries_by_id, _entries_by_category, _last_loaded, now,
                 _initialized, app, tasks, session>>

\* SupportDBService.get_entry_count
get_entry_count ==
  Len(_entries)

\* SupportDBService.is_loaded
is_loaded ==
  Len(_entries) > 0 /\ _last_loaded # <<>>

\* the one load of a process: initialize_database at start-up
Startup ==
  /\ now = 0
  /\ \E file \in Files : load_database(file)
  /\ UNCHANGED <<_initialized, app>>

Search ==
  \E query \in Queries, limit \in Limits : search_entries(query, limit)

\* load_database called again on the same service
Reload ==
  /\ \E file \in Files : load_database(file)
  /\ UNCHANGED <<_initialized, app>>

\* a process: the start-up load, and searches at any time
Next ==
  \/ Startup
  \/ Search

Spec ==
  Init /\ [][Next]_vars

\* a service whose database is loaded repeatedly
NextReload ==
  Reload

SpecReload ==
  Init /\ [][NextReload]_vars

(***************************************************************************)
(* Properties of search_entries.                                           *)
(***************************************************************************)
\* the last call was a search whose query is not blank, so entries were scored
Scored ==
  call.op = "search" /\ \E i \in 1..Len(call.query) : ~IsSpace(call.query[i])

\* the score the last search assigned to the entry at position i: the score
\* paired with it in results, 0 when it was left out
AssignedScore(i) ==
  IF \E k \in 1..Len(call.results) : call.results[k].ref = i
    THEN call.results[CHOOSE k \in 1..Len(call.results) : call.results[k].ref = i].score
    ELSE 0

\* the words of a query, in order
WordsOf(query) ==
  Split(Strip(Lower(query)))

\* the words of the query are pairwise distinct
DistinctWords(query) ==
  \A i, j \in 1..Len(WordsOf(query)) : i # j => WordsOf(query)[i] # WordsOf(query)[j]

\* number of words of the word set W that occur in text
SetHits(W, text) ==
  Cardinality({w \in W : IsSubstr(w, Lower(text))})

\* the reference sum: every word signal counts the set of query words
RefScore(entry, query) ==
  LET q == Strip(Lower(query))
      W == {WordsOf(query)[i] : i \in 1..Len(WordsOf(query))}
      kw(k) == IF IsSubstr(q, Lower(entry.keywords[k])) \/ IsSubstr(Lower(entry.keywords[k]), q)
                 THEN 4 ELSE 2 * SetHits(W, entry.keywords[k])
      kwsum[k \in 0..Len(entry.keywords)] == IF k = 0 THEN 0 ELSE kwsum[k - 1] + kw(k)
  IN  (IF IsSubstr(q, Lower(entry.title)) THEN 5 ELSE 2 * SetHits(W, entry.title))
        + kwsum[Len(entry.keywords)]
        + SetHits(W, entry.content)

\* C1: for a non-blank query of pairwise distinct words, the score assigned to
\* every entry of the store equals the reference sum (title +5 or +2 per word,
\* each keyword +4 or +2 per word, content +1 per word)
C1_ScoreIsReferenceSum ==
  (Scored /\ DistinctWords(call.query))
    => \A i \in 1..Len(_entries) : AssignedScore(i) = RefScore(_entries[i], call.query)

\* a two-word query scored two entries differently, one through the exact
\* title match and one through word matches only
C1_Witness ==
  /\ Scored /\ DistinctWords(call.query) /\ Len(WordsOf(call.query)) = 2
  /\ \E i, j \in 1..Len(_entries) :
       /\ AssignedScore(i) = 9 /\ AssignedScore(j) = 8
       /\ IsSubstr(Strip(Lower(call.query)), Lower(_entries[i].title))
       /\ ~IsSubstr(Strip(Lower(call.query)), Lower(_entries[j].title))

\* C2: for a non-empty query the returned list is in non-increasing score
\* order, and returned entries of equal score are in store order
C2_SortedStable ==
  (call.op = "search" /\ call.query # <<>>)
    => \A a, b \in 1..Len(call.ret) :
         a < b => /\ AssignedScore(call.ret[a]) >= AssignedScore(call.ret[b])
                  /\ AssignedScore(call.ret[a]) = AssignedScore(call.ret[b])
                       => call.ret[a] < call.ret[b]

\* a search returned two entries of equal score after moving a later entry of
\* higher score ahead of an earlier one
C2_Witness ==
  /\ call.op = "search" /\ Len(call.ret) = 3
  /\ \E a, b \in 1..3 : a < b /\ AssignedScore(call.ret[a]) = AssignedScore(call.ret[b])
  /\ \E a, b \in 1..3 : a < b /\ call.ret[a] > call.ret[b]

\* the score the scoring loop of the last search computes for the entry at
\* position i
ScoreOf(i) ==
  EntryScore(_entries[i], Strip(Lower(call.query)), query_words(Strip(Lower(call.query))))

\* the positions of the entries with a positive score
Positive ==
  {i \in 1..Len(_entries) : ScoreOf(i) > 0}

\* C3: every returned entry has a score above 0; when every entry scores 0 the
\* result is empty; and when limit is at least the number of positive-score
\* entries, each of them is returned exactly once
C3_OnlyPositiveAllPositive ==
  call.op = "search"
    => /\ \A k \in 1..Len(call.ret) : Scored /\ ScoreOf(call.ret[k]) > 0
       /\ (Scored /\ Positive = {}) => call.ret = <<>>
       /\ (Scored /\ call.limit >= Cardinality(Positive))
            => \A i \in Positive :
                 Cardinality({k \in 1..Len(call.ret) : call.ret[k] = i}) = 1

\* a search with a large limit over a store of three entries returned two of
\* them and left out the one that scores 0
C3_Witness ==
  /\ Scored /\ Len(_entries) = 3 /\ Cardinality(Positive) = 2
  /\ call.limit >= 2 /\ Len(call.ret) = 2

\* C4: an empty or whitespace-only query returns the empty list, for every
\* store and limit
C4_BlankQueryEmpty ==
  (call.op = "search" /\ \A i \in 1..Len(call.query) : IsSpace(call.query[i]))
    => call.ret = <<>>

\* a whitespace-only query was searched with a positive limit in a store that
\* holds entries
C4_Witness ==
  /\ call.op = "search" /\ call.query = <<" ">> /\ call.limit > 0
  /\ Len(_entries) >= 2 /\ call.ret = <<>>

\* the place of entry i in the full ranking: one more than the number of
\* positive-score entries that score higher, or the same and come earlier
Rank(i) ==
  1 + Cardinality({j \in Positive :
                     \/ ScoreOf(j) > ScoreOf(i)
                     \/ ScoreOf(j) = ScoreOf(i) /\ j < i})

\* C5: for limit >= 0 and n positive-score entries the result has exactly
\* min(n, limit) entries, the first min(n, limit) of the full ranking
C5_LimitTruncates ==
  (Scored /\ call.limit >= 0)
    => /\ Len(call.ret) = IF Cardinality(Positive) < call.limit
                            THEN Cardinality(Positive) ELSE call.limit
       /\ \A k \in 1..Len(call.ret) :
            call.ret[k] \in Positive /\ Rank(call.ret[k]) = k

\* three entries matched, the limit was 2, and the two returned are not the
\* first two of the store
C5_Witness ==
  /\ Scored /\ call.limit = 2 /\ Cardinality(Positive) = 3
  /\ Len(call.ret) = 2 /\ call.ret # <<1, 2>>

\* C6: a search leaves the entry list and both indexes as they were, and a
\* search that repeats the previous search returns the same ordered result
C6_SearchRepeatable ==
  [][call'.op = "search"
       => /\ UNCHANGED <<_entries, _entries_by_id, _entries_by_category>>
          /\ call'.repeat => call'.ret = call.ret]_vars

\* the same search was made twice in a row and returned three entries
C6_Witness ==
  call.op = "search" /\ call.repeat /\ Len(call.ret) = 3 /\ call.ret # <<1, 2, 3>>

\* C7: the query words act as a set: also for a query that repeats a word,
\* the assigned score is the reference sum over the set of its words
C7_WordsFormASet ==
  Scored => \A i \in 1..Len(_entries) : AssignedScore(i) = RefScore(_entries[i], call.query)

(***************************************************************************)
(* Properties of load_database.                                            *)
(***************************************************************************)
\* the file holds a JSON array
IsArrayFile(file) ==
  Disk(file).exists /\ Disk(file).parses /\ Disk(file).data.type = "array"

\* the file holds a JSON array whose elements are all JSON objects
IsArrayOfObjects(file) ==
  /\ IsArrayFile(file)
  /\ \A i \in 1..Len(Disk(file).data.items) : Disk(file).data.items[i].type = "object"

\* the object passes entry validation
Passes(item) ==
  item.type = "object" /\ SupportEntry(item.members) # Raise

\* the entries a file's passing objects validate to, in file order
ValidEntries(file) ==
  LET passing == SelectSeq(Disk(file).data.items, Passes)
  IN  [k \in 1..Len(passing) |-> SupportEntry(passing[k].members)[1]]

\* C8: loading an array of objects, some of which fail validation, returns
\* success and leaves exactly the passing objects in the store, in file order;
\* get_entry_count counts none of the rejected objects
C8_InvalidObjectsSkipped ==
  (call.op = "load" /\ IsArrayOfObjects(call.file))
    => /\ call.ret = TRUE
       /\ _entries = ValidEntries(call.file)
       /\ get_entry_count = Cardinality({i \in 1..Len(Disk(call.file).data.items) :
                                           Passes(Disk(call.file).data.items[i])})
       /\ \A k \in 1..Len(_entries) :
            \E i \in k..Len(Disk(call.file).data.items) :
              _entries[k].id = Disk(call.file).data.items[i].members.id

\* a file of three objects whose first lacks a required member was loaded
\* and the two objects behind it are in the store
C8_Witness ==
  /\ call.op = "load" /\ IsArrayOfObjects(call.file)
  /\ Len(Disk(call.file).data.items) = 3
  /\ "content" \notin DOMAIN Disk(call.file).data.items[1].members
  /\ call.ret = TRUE /\ get_entry_count = 2

\* C9: load fails only for a missing file or a top-level value that is no
\* array: every file holding a JSON array loads with success, whatever its
\* elements are
C9_ArrayAlwaysLoads ==
  (call.op = "load" /\ IsArrayFile(call.file)) => call.ret = TRUE

\* C10: a load on a loaded store either returns success with the entry list
\* and both indexes holding exactly the new file's valid entries, or returns
\* failure with the entry list, both indexes and the load time as before
C10_LoadAtomic ==
  [][(call'.op = "load" /\ is_loaded)
       => \/ /\ call'.ret = TRUE
             /\ _entries' = ValidEntries(call'.file)
             /\ DOMAIN _entries_by_id' = {_entries'[i].id : i \in 1..Len(_entries')}
             /\ DOMAIN _entries_by_category' =
                  {_entries'[i].category : i \in 1..Len(_entries')}
          \/ /\ call'.ret = FALSE
             /\ UNCHANGED <<_entries, _entries_by_id, _entries_by_category,
                            _last_loaded>>]_vars

(***************************************************************************)
(* validate_database.  A message built by an f-string is the tuple of its  *)
(* parts.                                                                  *)
(***************************************************************************)
\* validate_database: the categories of the report, one count per key of
\* self._entries_by_category
CategoryCounts(by_category) ==
  [c \in DOMAIN by_category |-> Len(by_category[c])]

RECURSIVE DuplicateErrors_OncePerId(_, _, _, _)
\* DuplicateErrors that reports an id once, however often it occurs again
DuplicateErrors_OncePerId(entries, i, seen_ids, errors) ==
  IF i > Len(entries) THEN errors
  ELSE IF entries[i].id \in seen_ids
         /\ \A k \in 1..Len(errors) : errors[k][2] # entries[i].id
    THEN DuplicateErrors_OncePerId(entries, i + 1, seen_ids,
                         Append(errors, <<"Duplicate ID found: ", entries[i].id>>))
    ELSE DuplicateErrors_OncePerId(entries, i + 1, seen_ids \cup {entries[i].id}, errors)

RECURSIVE DuplicateErrors(_, _, _, _)
\* validate_database, the loop over self._entries with seen_ids: the errors
\* list after it
DuplicateErrors(entries, i, seen_ids, errors) ==
  IF i > Len(entries) THEN errors
  ELSE IF entries[i].id \in seen_ids
    THEN DuplicateErrors(entries, i + 1, seen_ids,
                         Append(errors, <<"Duplicate ID found: ", entries[i].id>>))
    ELSE DuplicateErrors(entries, i + 1, seen_ids \cup {entries[i].id}, errors)

\* validate_database: entries_without_urls
entries_without_urls(entries) ==
  SelectSeq(entries, LAMBDA e : e.url = <<>>)

\* ValidationReport that counts an entry without url as an error
ValidationReport_UrlIsError(entries, by_category, errors) ==
  [is_valid      |-> errors = <<>> /\ entries_without_urls(entries) = <<>>,
   total_entries |-> Len(entries),
   categories    |-> CategoryCounts(by_category),
   errors        |-> IF entries_without_urls(entries) # <<>>
                       THEN Append(errors, <<Len(entries_without_urls(entries)),
                                             " entries without URLs">>)
                       ELSE errors,
   warnings      |-> <<>>]

\* validate_database: the report for a store that is not empty, given the
\* errors of the duplicate check; is_valid was set to False with every error
ValidationReport(entries, by_category, errors) ==
  [is_valid      |-> errors = <<>>,
   total_entries |-> Len(entries),
   categories    |-> CategoryCounts(by_category),
   errors        |-> errors,
   warnings      |-> IF entries_without_urls(entries) # <<>>
                       THEN << <<Len(entries_without_urls(entries)),
                                 " entries without URLs">> >>
                       ELSE <<>>]

\* validate_database: validation_results as returned
validation_results(entries, by_category) ==
  IF entries = <<>>
    THEN [is_valid      |-> FALSE,
          total_entries |-> Len(entries),
          categories    |-> EmptyDict,
          errors        |-> << <<"No support entries loaded">> >>,
          warnings      |-> <<>>]
    ELSE ValidationReport(entries, by_category, DuplicateErrors(entries, 1, {}, <<>>))

\* SupportDBService.validate_database
validate_database ==
  /\ call' = [op |-> "validate", ret |-> validation_results(_entries, _entries_by_category)]
  /\ UNCHANGED <<_entries, _entries_by_id, _entries_by_category, _last_loaded, now,
                 _initialized, app, tasks, session>>

Validate ==
  validate_database

\* a service whose database is loaded repeatedly and validated at any time
NextValidate ==
  \/ Reload
  \/ Validate

SpecValidate ==
  Init /\ [][NextValidate]_vars

\* initialize_database step by step: the start-up load, then validation
NextInitialize ==
  \/ Startup
  \/ Validate

SpecInitialize ==
  Init /\ [][NextInitialize]_vars

(***************************************************************************)
(* Properties of validate_database.                                        *)
(***************************************************************************)
\* the positions of the entries with the given id
Occurrences(entries, id) ==
  {i \in 1..Len(entries) : entries[i].id = id}

\* some id occurs more than once in the list
HasDuplicateId(entries) ==
  \E i, j \in 1..Len(entries) : i # j /\ entries[i].id = entries[j].id

\* the positions of the errors that report the given id as a duplicate
DuplicateReports(errors, id) ==
  {k \in 1..Len(errors) : errors[k] = <<"Duplicate ID found: ", id>>}

\* C11: loading an array of objects of which two valid ones have the same id
\* returns success and keeps both in the entry list; validate_database on a
\* store with a duplicate id returns is_valid = false, with one 'Duplicate ID
\* found' error naming the id for every occurrence after the first and no
\* other error, and leaves the store as it was
C11_DuplicateIdsKeptAndReported ==
  /\ [](/\ (call.op = "load" /\ IsArrayOfObjects(call.file)
              /\ HasDuplicateId(ValidEntries(call.file)))
             => call.ret = TRUE /\ _entries = ValidEntries(call.file)
        /\ (call.op = "validate" /\ HasDuplicateId(_entries))
             => /\ call.ret.is_valid = FALSE
                /\ \A i \in 1..Len(_entries) :
                     Cardinality(DuplicateReports(call.ret.errors, _entries[i].id))
                       = Cardinality(Occurrences(_entries, _entries[i].id)) - 1
                /\ \A k \in 1..Len(call.ret.errors) :
                     \E i \in 1..Len(_entries) :
                       k \in DuplicateReports(call.ret.errors, _entries[i].id))
  /\ [][call'.op = "validate"
          => UNCHANGED <<_entries, _entries_by_id, _entries_by_category,
                         _last_loaded>>]_vars

\* a successfully loaded store of three entries with one id was validated:
\* the report holds two errors
C11_Witness ==
  /\ call.op = "validate" /\ _last_loaded # <<>>
  /\ Len(_entries) = 3
  /\ \A i \in 1..Len(_entries) : _entries[i].id = _entries[1].id
  /\ Len(call.ret.errors) = 2
  /\ call.ret.is_valid = FALSE

\* C12: validate_database returns is_valid = false exactly when the store is
\* empty or some id occurs more than once; the report on an empty store
\* carries an error; on a store that is not empty and has pairwise distinct
\* ids is_valid is true, total_entries equals get_entry_count(), there is no
\* error, and there is a warning exactly when some entry lacks a url
C12_ValidUnlessEmptyOrDuplicate ==
  call.op = "validate"
    => /\ (call.ret.is_valid = FALSE) <=> (_entries = <<>> \/ HasDuplicateId(_entries))
       /\ _entries = <<>> => call.ret.errors # <<>>
       /\ (_entries # <<>> /\ ~HasDuplicateId(_entries))
            => /\ call.ret.is_valid = TRUE
               /\ call.ret.total_entries = get_entry_count
               /\ call.ret.errors = <<>>
               /\ (call.ret.warnings # <<>>)
                    <=> (\E i \in 1..Len(_entries) : _entries[i].url = <<>>)

\* a store of two entries with distinct ids, one of them without url, was
\* validated: the report is valid and carries a warning
C12_Witness ==
  /\ call.op = "validate"
  /\ Len(_entries) = 2 /\ _entries[1].id # _entries[2].id
  /\ _entries[1].url # <<>> /\ _entries[2].url = <<>>
  /\ call.ret.is_valid = TRUE /\ call.ret.total_entries = 2
  /\ Len(call.ret.warnings) = 1 /\ call.ret.errors = <<>>

(***************************************************************************)
(* Invariants of the stored entries.                                       *)
(***************************************************************************)
\* C13: after any sequence of loads every stored entry has at least one
\* keyword and none of its keywords is the empty string
C13_KeywordsNonEmpty ==
  \A i \in 1..Len(_entries) :
    /\ Len(_entries[i].keywords) >= 1
    /\ \A k \in 1..Len(_entries[i].keywords) : _entries[i].keywords[k] # <<>>

\* C14: after any sequence of loads every stored entry has an id that is not
\* empty and is made of alphanumeric characters, hyphens and underscores, a
\* title that is not blank, a category of the closed set, a trimmed content
\* of at least 10 characters, and no url or one starting with http:// or
\* https://
C14_StoredEntriesWellFormed ==
  \A i \in 1..Len(_entries) :
    /\ _entries[i].id # <<>>
    /\ \A k \in 1..Len(_entries[i].id) :
         _entries[i].id[k] \in {"-", "_"} \/ IsAlnum(<<_entries[i].id[k]>>)
    /\ Strip(_entries[i].title) # <<>>
    /\ _entries[i].category \in valid_categories
    /\ _entries[i].content = Strip(_entries[i].content)
    /\ Len(_entries[i].content) >= 10
    /\ \/ _entries[i].url = <<>>
       \/ SubSeq(_entries[i].url[1], 1, 7) = <<"h", "t", "t", "p", ":", "/", "/">>
       \/ SubSeq(_entries[i].url[1], 1, 8) = <<"h", "t", "t", "p", "s", ":", "/", "/">>

\* a file whose one object has a content between blanks was loaded: the
\* stored content is the trimmed one
C14_Witness ==
  /\ call.op = "load" /\ call.ret = TRUE /\ IsArrayOfObjects(call.file)
  /\ Len(Disk(call.file).data.items) = 1 /\ Len(_entries) = 1
  /\ Disk(call.file).data.items[1].members.content # _entries[1].content
  /\ Disk(call.file).data.items[1].members.content
       = <<" ">> \o _entries[1].content \o <<" ">>

(***************************************************************************)
(* The accessors.  A returned entry is a reference to the stored object; a *)
(* returned list is a new list of references.                              *)
(***************************************************************************)
\* SupportDBService.get_all_entries: self._entries.copy()
get_all_entries ==
  [k \in 1..Len(_entries) |-> k]

\* SupportDBService.get_entry_by_id: <<>> for None, <<ref>> for an entry
get_entry_by_id(entry_id) ==
  IF entry_id \in DOMAIN _entries_by_id THEN <<_entries_by_id[entry_id]>> ELSE <<>>

\* SupportDBService.get_entries_by_category: .get(category, []).copy()
get_entries_by_category(category) ==
  IF category \in DOMAIN _entries_by_category THEN _entries_by_category[category] ELSE <<>>

\* SupportDBService.get_categories: the keys of the category index; the model
\* keeps the keys of a dict as a set, without their insertion order
get_categories ==
  DOMAIN _entries_by_category

\* the categories asked for: the closed set and one outside it
Categories ==
  valid_categories \cup {"Other"}

\* the ids asked for: those of the objects offered to load_database and one
\* that none of them has
EntryIds ==
  {Items[k].members.id : k \in {j \in 1..Len(Items) : Items[j].type = "object"}}
    \cup {FieldItems[k].members.id : k \in 1..Len(FieldItems)}
    \cup {<<"e", "0">>}

RECURSIVE SumOver(_, _)
\* the sum of d[k] over the keys k in keys
SumOver(d, keys) ==
  IF keys = {} THEN 0
  ELSE LET k == CHOOSE x \in keys : TRUE
       IN  d[k] + SumOver(d, keys \ {k})

\* C16: after any sequence of loads the indexes agree with the entry list:
\* get_entries_by_category(c) is the subsequence of get_all_entries() with
\* category c, in load order, for every category c; get_categories() is the
\* set of categories of the stored entries; the per-category counts of a
\* validate_database report sum to get_entry_count(); get_entry_by_id(i) is
\* an entry of get_all_entries() with id i, or None when no entry has id i
C16_IndexesAgreeWithEntries ==
  /\ \A c \in Categories :
       get_entries_by_category(c)
         = SelectSeq(get_all_entries, LAMBDA ref : _entries[ref].category = c)
  /\ get_categories = {_entries[i].category : i \in 1..Len(_entries)}
  /\ call.op = "validate"
       => SumOver(call.ret.categories, DOMAIN call.ret.categories) = get_entry_count
  /\ \A id \in EntryIds :
       IF \E i \in 1..Len(_entries) : _entries[i].id = id
         THEN /\ get_entry_by_id(id) # <<>>
              /\ \E k \in 1..Len(get_all_entries) :
                   get_all_entries[k] = get_entry_by_id(id)[1]
              /\ _entries[get_entry_by_id(id)[1]].id = id
         ELSE get_entry_by_id(id) = <<>>

\* after two successful loads a store of three entries in two categories, two
\* of them with one id, was validated
C16_Witness ==
  /\ call.op = "validate" /\ _last_loaded = <<2>>
  /\ Len(_entries) = 3
  /\ Cardinality(get_categories) = 2
  /\ Cardinality({_entries[i].id : i \in 1..Len(_entries)}) = 2
  /\ \E c \in get_categories : Len(get_entries_by_category(c)) = 2

(***************************************************************************)
(* A caller of the accessors.  The caller holds the value the last call    *)
(* returned and may change it in place: a returned list is the caller's    *)
(* own, a returned entry is the object the store holds.                    *)
(***************************************************************************)
\* the record of an accessor call
AccessorCall(op, arg, ret) ==
  [op |-> op, arg |-> arg, ret |-> ret]

GetAllEntries ==
  /\ call' = AccessorCall("get_all_entries", <<>>, get_all_entries)
  /\ UNCHANGED <<_entries, _entries_by_id, _entries_by_category, _last_loaded, now,
                 _initialized, app, tasks, session>>

GetEntryById ==
  /\ \E entry_id \in EntryIds :
       call' = AccessorCall("get_entry_by_id", entry_id, get_entry_by_id(entry_id))
  /\ UNCHANGED <<_entries, _entries_by_id, _entries_by_category, _last_loaded, now,
                 _initialized, app, tasks, session>>

GetEntriesByCategory ==
  /\ \E category \in Categories :
       call' = AccessorCall("get_entries_by_category", category,
                            get_entries_by_category(category))
  /\ UNCHANGED <<_entries, _entries_by_id, _entries_by_category, _last_loaded, now,
                 _initialized, app, tasks, session>>

GetCategories ==
  /\ call' = AccessorCall("get_categories", <<>>, get_categories)
  /\ UNCHANGED <<_entries, _entries_by_id, _entries_by_category, _last_loaded, now,
                 _initialized, app, tasks, session>>

\* the calls that return a list of entries
ReturnsEntryList ==
  {"get_all_entries", "get_entries_by_category", "search"}

\* list.reverse()
Reversed(list) ==
  [k \in 1..Len(list) |-> list[Len(list) + 1 - k]]

\* the caller adds to, removes from or reorders the list the last call
\* returned: the list is the caller's own object
MutateReturnedList ==
  /\ \/ /\ call.op \in ReturnsEntryList
        /\ call.ret # <<>>
        /\ \E changed \in {Append(call.ret, call.ret[1]), Tail(call.ret),
                           Reversed(call.ret)} :
             call' = [op |-> "mutate list", of |-> call.op, ret |-> changed]
     \/ /\ call.op = "get_categories"
        /\ \E category \in call.ret :
             call' = [op |-> "mutate list", of |-> call.op, ret |-> call.ret \ {category}]
  /\ UNCHANGED <<_entries, _entries_by_id, _entries_by_category, _last_loaded, now,
                 _initialized, app, tasks, session>>

\* the title a caller assigns to a returned entry
AssignedTitle ==
  <<"c">>

\* the caller assigns to a field of an entry the last call returned
\* (entry.title = ...): the entry is the object _entries holds, SupportEntry
\* is not frozen and does not validate assignments
MutateReturnedEntry ==
  /\ call.op \in ReturnsEntryList \cup {"get_entry_by_id"}
  /\ \E k \in 1..Len(call.ret) :
       /\ _entries[call.ret[k]].title # AssignedTitle
       /\ _entries' = [_entries EXCEPT ![call.ret[k]].title = AssignedTitle]
       /\ call' = [op |-> "mutate entry", of |-> call.op, ret |-> call.ret[k]]
  /\ UNCHANGED <<_entries_by_id, _entries_by_category, _last_loaded, now, _initialized,
                 app, tasks, session>>

\* search_entries called without a limit
SearchDefault ==
  \E query \in Queries : search_entries(query, DefaultLimit)

\* a process that reads the store through the accessors and search_entries
\* and changes what they returned
NextAccess ==
  \/ Startup
  \/ GetAllEntries
  \/ GetEntryById
  \/ GetEntriesByCategory
  \/ GetCategories
  \/ SearchDefault
  \/ MutateReturnedList
  \/ MutateReturnedEntry

SpecAccess ==
  Init /\ [][NextAccess]_vars

\* the entries a list of references stands for, as the caller reads them
Deref(entries, refs) ==
  [k \in 1..Len(refs) |-> entries[refs[k]]]

\* what a search for the query returns on the given entry list
SearchResult(entries, query) ==
  IF Strip(query) = <<>> THEN <<>>
  ELSE Deref(entries, Refs(SliceTo(RankEntries(entries, Strip(Lower(query))),
                                   DefaultLimit)))

\* what the accessors and search_entries return for a store, with every
\* returned entry read field by field
Observed(entries, by_id, by_category) ==
  [all         |-> entries,
   by_id       |-> [id \in DOMAIN by_id |-> entries[by_id[id]]],
   by_category |-> [c \in DOMAIN by_category |-> Deref(entries, by_category[c])],
   search      |-> [query \in Queries |-> SearchResult(entries, query)]]

\* C15: a change the caller makes to a value an accessor or search_entries
\* returned (adding to, removing from or reordering a returned list, assigning
\* to a field of a returned entry) leaves the results of the accessors and of
\* search_entries as they were
C15_ReturnedValuesAreCopies ==
  [][call'.op \in {"mutate list", "mutate entry"}
       => Observed(_entries', _entries_by_id', _entries_by_category')
            = Observed(_entries, _entries_by_id, _entries_by_category)]_vars

(***************************************************************************)
(* OpenAIService.  What the OpenAI client does is the environment's        *)
(* choice: constructing it succeeds or raises, and a generation is served  *)
(* by the test response (test key), by a completion, by a completion whose *)
(* content is empty after strip(), by a completion longer than an          *)
(* AssistantResponse may be, or ends in an exception (API error, timeout). *)
(* A text is written as a string with its length.                          *)
(***************************************************************************)
\* AssistantResponse.validate_content: the greatest length of a content
MaxContentLen == 5000

\* a text of the given length
Text(name, length) ==
  [text |-> name, length |-> length]

\* generate_response: the content returned when the service is not initialized
NotInitializedContent ==
  Text("I'm sorry, but I'm currently unable to process your request. Please try again later.",
       84)

\* generate_response: the content returned when the API call raised
TechnicalDifficultiesContent ==
  Text("I apologize, but I'm experiencing technical difficulties. Please try again in a moment.",
       87)

\* submit_chat_message: the content used when nothing matched and the
\* generated content is empty
DefaultContent ==
  Text("I understand you're asking about moving services. ...", 239)

\* what a generation may end in
Generations ==
  {"test response", "completion", "empty completion", "oversized completion", "raises"}

\* OpenAIService.generate_response
generate_response(initialized, generation) ==
  IF ~initialized
    THEN [content |-> NotInitializedContent, error |-> <<"OpenAI service not initialized">>]
  ELSE CASE generation = "test response" ->
              [content |-> Text("I'm here to help with WM services ...", 300), error |-> <<>>]
         [] generation = "completion" ->
              [content |-> Text("completion", 10), error |-> <<>>]
         [] generation = "empty completion" ->
              [content |-> Text("", 0), error |-> <<>>]
         [] generation = "oversized completion" ->
              [content |-> Text("oversized completion", MaxContentLen + 1), error |-> <<>>]
         [] OTHER ->
              [content |-> TechnicalDifficultiesContent, error |-> <<"str(e)">>]

\* OpenAIService.initialize: the new value of _initialized and the returned
\* value, given whether OpenAI(api_key=...) returns (client_ok) or raises
initialize(initialized, client_ok) ==
  IF client_ok THEN [initialized |-> TRUE, ret |-> TRUE]
  ELSE [initialized |-> initialized, ret |-> FALSE]

\* openai_service.initialize() at the start of the application
InitializeOpenAI ==
  /\ \E client_ok \in BOOLEAN :
       /\ _initialized' = initialize(_initialized, client_ok).initialized
       /\ call' = [op |-> "initialize", ret |-> initialize(_initialized, client_ok).ret]
  /\ UNCHANGED <<_entries, _entries_by_id, _entries_by_category, _last_loaded, now,
                 app, tasks, session>>

(***************************************************************************)
(* The chat endpoint.  A confidence score is written in tenths.            *)
(***************************************************************************)
\* submit_chat_message: search_entries(request.message, limit=3)
ChatSearchLimit == 3

\* submit_chat_message: the score 0.5 paired with every found entry
DefaultConfidence == 5

\* submit_chat_message: the score 0.1 of a response without context
NoContextConfidence == 1

\* raise HTTPException(status_code, detail)
HTTPException(status_code, detail) ==
  [status_code |-> status_code, detail |-> detail, body |-> <<>>]

\* a ChatResponse returned by the endpoint
ChatResponse(content, sources, urls, confidence_score) ==
  [status_code |-> 200, detail |-> "",
   body |-> <<[content |-> content, sources |-> sources, urls |-> urls,
               confidence_score |-> confidence_score]>>]

\* CustomerQuery_raises without validate_message
CustomerQuery_raises_SessionOnly(session_id, message) ==
  \/ session_id = <<>> \/ Strip(session_id) = <<>>

\* CustomerQuery(...): TRUE when validate_session_id or validate_message raises
CustomerQuery_raises(session_id, message) ==
  \/ session_id = <<>> \/ Strip(session_id) = <<>>
  \/ message = <<>> \/ Strip(message) = <<>>

\* what search_entries returns: the references of the found entries
search_entries_ret(entries, query, limit) ==
  IF query = <<>> \/ Strip(query) = <<>> THEN <<>>
  ELSE Refs(SliceTo(RankEntries(entries, Strip(Lower(query))), limit))

\* Sources that lists the ids in the order of the store
Sources_StoreOrder(entries, similar_entries) ==
  LET found == SelectSeq([i \in 1..Len(entries) |-> i],
                         LAMBDA i : \E k \in 1..Len(similar_entries) : similar_entries[k] = i)
  IN  [k \in 1..Len(found) |-> entries[found[k]].id]

\* submit_chat_message: sources, the id of every found entry
Sources(entries, similar_entries) ==
  [k \in 1..Len(similar_entries) |-> entries[similar_entries[k]].id]

\* submit_chat_message: urls, the url of every found entry that has one
Urls(entries, similar_entries) ==
  LET with_url == SelectSeq(similar_entries, LAMBDA ref : entries[ref].url # <<>>)
  IN  [k \in 1..Len(with_url) |-> entries[with_url[k]].url[1]]

\* max(score for _, score in similar_entries) for a list that is not empty,
\* every entry being paired with the score 0.5
MaxScore(similar_entries) ==
  CHOOSE m \in {DefaultConfidence : k \in 1..Len(similar_entries)} :
    \A n \in {DefaultConfidence : k \in 1..Len(similar_entries)} : m >= n

\* ConfidenceScore without the test `if not context`
ConfidenceScore_NoContextTest(similar_entries) ==
  IF similar_entries = <<>> THEN 0 ELSE MaxScore(similar_entries)

\* submit_chat_message: confidence_score; context is empty exactly when
\* nothing was found, every part of it starting with "Title: "
ConfidenceScore(similar_entries) ==
  IF similar_entries = <<>> THEN NoContextConfidence ELSE MaxScore(similar_entries)

\* submit_chat_message: openai_response["content"] after the default content
\* was put in for an empty content without context
ResponseContent(similar_entries, content) ==
  IF similar_entries = <<>> /\ content.length = 0 THEN DefaultContent ELSE content

\* AssistantResponse.validate_content: TRUE when the validator raises
AssistantResponse_content_raises(content) ==
  content.length = 0 \/ content.length > MaxContentLen

\* AssistantResponse.validate_sources
validate_sources(v) ==
  SelectSeq([k \in 1..Len(v) |-> Strip(v[k])], LAMBDA source : source # <<>>)

\* AssistantResponse.validate_urls: TRUE when the validator raises
validate_urls_raises(v) ==
  \E k \in 1..Len(v) :
    /\ ~StartsWith(v[k], <<"h", "t", "t", "p", ":", "/", "/">>)
    /\ ~StartsWith(v[k], <<"h", "t", "t", "p", "s", ":", "/", "/">>)

\* Respond whose handler `except Exception as e` puts str(e) in the detail
Respond_DetailIsException(entries, similar_entries, content) ==
  IF \/ AssistantResponse_content_raises(ResponseContent(similar_entries, content))
     \/ validate_urls_raises(Urls(entries, similar_entries))
    THEN HTTPException(500, "str(e)")
    ELSE ChatResponse(ResponseContent(similar_entries, content),
                      validate_sources(Sources(entries, similar_entries)),
                      Urls(entries, similar_entries),
                      ConfidenceScore(similar_entries))

\* submit_chat_message from the building of sources and urls to the return,
\* given the found entries and the content of openai_response
Respond(entries, similar_entries, content) ==
  IF \/ AssistantResponse_content_raises(ResponseContent(similar_entries, content))
     \/ validate_urls_raises(Urls(entries, similar_entries))
    THEN HTTPException(500, "Internal server error")
    ELSE ChatResponse(ResponseContent(similar_entries, content),
                      validate_sources(Sources(entries, similar_entries)),
                      Urls(entries, similar_entries),
                      ConfidenceScore(similar_entries))

\* the status code of the answer to the request before this one, 0 when the
\* call before was no chat request
StatusBefore ==
  IF call.op = "chat" THEN call.answer.status_code ELSE 0

\* the record of a request to the endpoint: the request, what the OpenAI
\* client did, whether search_entries and generate_response were called and
\* what they returned, the answer, and the status of the request before
ChatCall(session_id, message, generation, similar_entries, openai_response, answer) ==
  [op |-> "chat", session_id |-> session_id, message |-> message,
   generation |-> generation, similar_entries |-> similar_entries,
   openai_response |-> openai_response, answer |-> answer, after |-> StatusBefore]

\* submit_chat_message once the OpenAI service is initialized
Answer(session_id, message, generation, similar_entries, openai_response) ==
  ChatCall(session_id, message, generation, <<similar_entries>>, <<openai_response>>,
           Respond(_entries, similar_entries, openai_response.content))

\* submit_chat_message whose handler of a failed generation empties the store
submit_chat_message_ClearsOnFailure(session_id, message, client_ok, generation) ==
  /\ IF CustomerQuery_raises(session_id, message)
       THEN /\ _initialized' = _initialized
            /\ call' = ChatCall(session_id, message, "none", <<>>, <<>>,
                                HTTPException(500, "Internal server error"))
       ELSE IF ~_initialized /\ ~initialize(_initialized, client_ok).ret
         THEN /\ _initialized' = initialize(_initialized, client_ok).initialized
              /\ call' = ChatCall(session_id, message, "none", <<>>, <<>>,
                                  HTTPException(500, "Failed to initialize OpenAI service"))
         ELSE /\ _initialized' = TRUE
              /\ call' = Answer(session_id, message, generation,
                                search_entries_ret(_entries, message, ChatSearchLimit),
                                generate_response(_initialized', generation))
  /\ IF call'.generation = "raises"
       THEN /\ _entries' = <<>>
            /\ _entries_by_id' = EmptyDict
            /\ _entries_by_category' = EmptyDict
       ELSE UNCHANGED <<_entries, _entries_by_id, _entries_by_category>>
  /\ UNCHANGED <<_last_loaded, now, app, tasks, session>>

\* POST /chat: submit_chat_message
submit_chat_message(session_id, message, client_ok, generation) ==
  /\ IF CustomerQuery_raises(session_id, message)
       THEN /\ _initialized' = _initialized
            /\ call' = ChatCall(session_id, message, "none", <<>>, <<>>,
                                HTTPException(500, "Internal server error"))
       ELSE IF ~_initialized /\ ~initialize(_initialized, client_ok).ret
         THEN /\ _initialized' = initialize(_initialized, client_ok).initialized
              /\ call' = ChatCall(session_id, message, "none", <<>>, <<>>,
                                  HTTPException(500, "Failed to initialize OpenAI service"))
         ELSE /\ _initialized' = TRUE
              /\ call' = Answer(session_id, message, generation,
                                search_entries_ret(_entries, message, ChatSearchLimit),
                                generate_response(_initialized', generation))
  /\ UNCHANGED <<_entries, _entries_by_id, _entries_by_category, _last_loaded, now,
                 app, tasks, session>>

\* the requests sent to the endpoint: messages that are blank, that match
\* entries and that may match none, and a blank session id
Requests ==
  {[session_id |-> <<"s">>, message |-> message] :
     message \in {<<" ">>, <<"a">>, <<" ", "c", " ">>, <<"a", " ", "b">>}}
    \cup {[session_id |-> <<" ">>, message |-> <<"a">>]}

\* what the OpenAI client does during a request: the constructor raises, or
\* it returns and the generation ends in one of its ways
ClientBehaviours ==
  {[client_ok |-> FALSE, generation |-> "raises"]}
    \cup {[client_ok |-> TRUE, generation |-> generation] : generation \in Generations}

Chat ==
  \E request \in Requests, client \in ClientBehaviours :
    submit_chat_message(request.session_id, request.message, client.client_ok,
                        client.generation)

\* a process: the start-up load and the start-up initialize of the OpenAI
\* service, and chat requests
NextChat ==
  \/ Startup
  \/ InitializeOpenAI
  \/ Chat

SpecChat ==
  Init /\ [][NextChat]_vars

(***************************************************************************)
(* Properties of the chat endpoint.                                        *)
(***************************************************************************)
\* the last call was a chat request answered with a ChatResponse
Answered ==
  call.op = "chat" /\ call.answer.status_code = 200

\* the body of the ChatResponse
Body ==
  call.answer.body[1]

RECURSIVE UrlsInOrder(_)
\* the urls of the referenced entries that have one, in the order of the list
UrlsInOrder(refs) ==
  IF refs = <<>> THEN <<>>
  ELSE (IF _entries[Head(refs)].url = <<>> THEN <<>> ELSE <<_entries[Head(refs)].url[1]>>)
         \o UrlsInOrder(Tail(refs))

\* C17: in every successful chat response sources is the list of the ids of
\* the entries search_entries(message, limit=3) returns, in rank order, so at
\* most 3 ids, and urls is the list of the urls of those of these entries
\* that have one, in the same order
C17_SourcesAndUrlsFollowSearch ==
  Answered
    => /\ call.similar_entries = <<search_entries_ret(_entries, call.message, 3)>>
       /\ Len(Body.sources) = Len(call.similar_entries[1])
       /\ Len(Body.sources) <= 3
       /\ \A k \in 1..Len(Body.sources) :
            Body.sources[k] = _entries[call.similar_entries[1][k]].id
       /\ Body.urls = UrlsInOrder(call.similar_entries[1])

\* a request matched all four entries of the store: the response names the
\* best three, not in store order, and one of the three has no url
C17_Witness ==
  /\ Answered /\ Len(_entries) = 4
  /\ Len(Body.sources) = 3 /\ Len(Body.urls) = 2
  /\ call.similar_entries[1][2] > call.similar_entries[1][3]
  /\ Body.sources[2] # Body.sources[3]

\* C18: in every successful chat response confidence_score is 0.1 when the
\* search found no entry and 0.5 when it found one or more, so it lies in
\* [0, 1]; scores are in tenths
C18_ConfidenceIsTenthOrHalf ==
  Answered
    => /\ search_entries_ret(_entries, call.message, 3) = <<>> => Body.confidence_score = 1
       /\ search_entries_ret(_entries, call.message, 3) # <<>> => Body.confidence_score = 5
       /\ Body.confidence_score \in 0..10

\* a request that matched none of the entries of a loaded store was answered
\* with the generated content
C18_Witness ==
  /\ Answered /\ Len(_entries) > 0
  /\ call.similar_entries = << <<>> >>
  /\ call.generation = "completion"
  /\ Body.confidence_score = 1 /\ Body.sources = <<>>

\* the request passed CustomerQuery validation and its generation failed: the
\* API call raised, or the OpenAI service was not initialized and could not
\* be, so that no generation took place
GenerationFailed ==
  /\ call.op = "chat"
  /\ ~CustomerQuery_raises(call.session_id, call.message)
  /\ call.generation = "raises" \/ call.openai_response = <<>>

\* C19: a failed generation (API error, timeout, OpenAI service not
\* initialized) never fails the request: the endpoint returns a successful
\* response whose content is the fixed fallback string
C19_GenerationFailureDegrades ==
  GenerationFailed
    => /\ call.answer.status_code = 200
       /\ Body.content \in {TechnicalDifficultiesContent, NotInitializedContent}

\* C20: a response that carries the fallback content of a failed generation
\* has a confidence_score of at most 0.1, however many entries matched
C20_FallbackHasLowConfidence ==
  (Answered /\ call.generation = "raises" /\ Body.content = TechnicalDifficultiesContent)
    => Body.confidence_score <= 1

\* the sources and urls of the answer to a request depend on the store and
\* on the message of the request alone
SourcesFollowMessage ==
  Answered
    => /\ Body.sources
            = validate_sources(Sources(_entries,
                search_entries_ret(_entries, call.message, ChatSearchLimit)))
       /\ Body.urls
            = Urls(_entries, search_entries_ret(_entries, call.message, ChatSearchLimit))

\* C24: over any sequence of chat requests, whatever each generation call
\* ends in, no request changes the knowledge store, and the sources and urls
\* of a request are those of its message on the store as it was loaded
C24_ChatLeavesStoreAlone ==
  /\ []SourcesFollowMessage
  /\ [][call'.op = "chat"
          => UNCHANGED <<_entries, _entries_by_id, _entries_by_category, _last_loaded>>]_vars

\* a request was answered with three sources and two urls although its own
\* generation failed and the request before it ended in an error
C24_Witness ==
  /\ Answered
  /\ call.after = 500
  /\ call.generation = "raises"
  /\ Len(Body.sources) = 3
  /\ Len(Body.urls) = 2

\* the request got as far as the generation, and what came back cannot be
\* put in an AssistantResponse: an empty content while entries matched, or a
\* content longer than 5000 characters
ContentFault ==
  /\ call.op = "chat"
  /\ call.openai_response # <<>>
  /\ \/ call.generation = "empty completion" /\ call.similar_entries[1] # <<>>
     \/ call.generation = "oversized completion"

\* the request passed CustomerQuery validation and the handler raised its
\* own HTTPException because the OpenAI service could not be initialized
InitializationRefused ==
  /\ call.op = "chat"
  /\ ~CustomerQuery_raises(call.session_id, call.message)
  /\ call.openai_response = <<>>

\* C25: a fault inside the handling of a chat request that is no
\* HTTPException (a request CustomerQuery rejects, an empty content while
\* entries matched, a content of more than 5000 characters) is answered with
\* status 500 and the detail "Internal server error"; the HTTPException the
\* handler raises itself reaches the client with its own detail; no other
\* error answer exists
C25_FaultsBecomeInternalServerError ==
  call.op = "chat"
    => /\ (ContentFault \/ CustomerQuery_raises(call.session_id, call.message))
            => call.answer = HTTPException(500, "Internal server error")
       /\ InitializationRefused
            => call.answer = HTTPException(500, "Failed to initialize OpenAI service")
       /\ ~Answered
            => call.answer.detail \in {"Internal server error",
                                       "Failed to initialize OpenAI service"}

\* the generation returned an empty content for a request that matched an
\* entry, and the client got the generic error
C25_Witness ==
  /\ ContentFault
  /\ call.generation = "empty completion"
  /\ Len(call.similar_entries[1]) > 0
  /\ call.answer.status_code = 500
  /\ call.answer.detail = "Internal server error"

\* max(limit, 0)
AtLeastZero(limit) ==
  IF limit > 0 THEN limit ELSE 0

\* C26: for every integer limit, zero and negative limits included,
\* search_entries returns no more than max(limit, 0) entries
C26_NoMoreThanLimit ==
  call.op = "search" => Len(call.ret) <= AtLeastZero(call.limit)

\* ChatRequest: message has min_length=1 and max_length=1000
ChatRequest_accepts(message) ==
  Len(message) >= 1 /\ Len(message) <= 1000

\* C27: a request whose message passes the length check of ChatRequest and
\* is blank fails in CustomerQuery: neither search_entries nor the generation
\* is called for it, and the answer is an HTTP 500, not a response with
\* confidence 0.1
C27_BlankMessageIsRejected ==
  (call.op = "chat" /\ ChatRequest_accepts(call.message) /\ Strip(call.message) = <<>>)
    => /\ call.similar_entries = <<>>
       /\ call.openai_response = <<>>
       /\ call.generation = "none"
       /\ call.answer.status_code = 500
       /\ call.answer.body = <<>>

\* a message of one blank was sent with a good session id to a process whose
\* store is loaded and whose OpenAI service is initialized
C27_Witness ==
  /\ call.op = "chat"
  /\ call.message = <<" ">>
  /\ call.session_id = <<"s">>
  /\ _initialized
  /\ Len(_entries) > 0
  /\ call.answer.status_code = 500

(***************************************************************************)
(* The entry points of the application: main.py, whose lifespan runs       *)
(* before the first request, and api/index.py, whose module body does.     *)
(***************************************************************************)
\* SupportDBService.initialize_database: the returned value, given what
\* load_database returned and the report validate_database gives after it
initialize_database_ret(load_ret, results) ==
  IF ~load_ret THEN FALSE
  ELSE IF ~results.is_valid THEN FALSE
  ELSE TRUE

\* what an entry point knows after its start-up
Started(entry, status, load_ret, database_ret) ==
  [entry |-> entry, status |-> status, load_ok |-> load_ret, database_ok |-> database_ret]

\* main.py, lifespan up to the yield: a False from initialize_database or
\* from openai_service.initialize() raises RuntimeError and the application
\* does not start
lifespan ==
  /\ app = NotStarted
  /\ \E file \in Files, client_ok \in BOOLEAN :
       /\ load_database(file)
       /\ IF ~initialize_database_ret(call'.ret,
                                      validation_results(_entries', _entries_by_category'))
            THEN /\ _initialized' = _initialized
                 /\ app' = Started("main.py", "failed: database", call'.ret, FALSE)
            ELSE /\ _initialized' = initialize(_initialized, client_ok).initialized
                 /\ app' = Started("main.py",
                                   IF initialize(_initialized, client_ok).ret
                                     THEN "serving" ELSE "failed: openai",
                                   call'.ret, TRUE)

\* api/index.py, the module body: both results are dropped and the routers
\* are included
index_module ==
  /\ app = NotStarted
  /\ \E file \in Files, client_ok \in BOOLEAN :
       /\ load_database(file)
       /\ _initialized' = initialize(_initialized, client_ok).initialized
       /\ app' = Started("api/index.py", "serving", call'.ret,
                         initialize_database_ret(call'.ret,
                            validation_results(_entries', _entries_by_category')))

\* a chat request to an application that serves
Serve ==
  /\ app.status = "serving"
  /\ Chat

\* an application from its start
NextApplication ==
  \/ lifespan
  \/ index_module
  \/ Serve

SpecApplication ==
  Init /\ [][NextApplication]_vars

\* C21: in every entry point a failed load_database is fatal: initialization
\* is reported as failed, the application does not get to serve, and no chat
\* request is handled
C21_FailedLoadIsFatal ==
  (app.entry # "none" /\ ~app.load_ok)
    => /\ ~app.database_ok
       /\ app.status = "failed: database"
       /\ call.op # "chat"

\* C22: a knowledge base that loads with success and holds a duplicate id
\* does not abort the start-up of the application
C22_DuplicateIdIsNotFatal ==
  (app.entry # "none" /\ app.load_ok /\ HasDuplicateId(_entries))
    => app.status # "failed: database"

(***************************************************************************)
(* search_entries on concurrent threads.  A thread can be preempted        *)
(* between any two bytecodes; the steps below are the reads of the shared  *)
(* service inside one call: self._entries is read once per iteration of    *)
(* the scoring loop, everything else works on the locals of the call.      *)
(***************************************************************************)
\* the arguments the concurrent callers pass
ConcurrentQueries ==
  {<<" ">>, <<"a">>, <<"a", " ", "b">>}

ConcurrentLimits ==
  {2, DefaultLimit}

\* the locals of a call that has returned
Returned(query, limit, ret) ==
  [pc |-> "returned", query |-> query, limit |-> limit, ret |-> ret]

\* search_entries up to the scoring loop: the blank test, query_lower,
\* query_words and results = []
search_begin(t, query, limit) ==
  /\ now > 0
  /\ tasks[t].pc = "idle"
  /\ tasks' = [tasks EXCEPT ![t] =
                 IF query = <<>> \/ Strip(query) = <<>>
                   THEN Returned(query, limit, <<>>)
                   ELSE [pc |-> "scoring", query |-> query, limit |-> limit,
                         query_lower |-> Strip(Lower(query)), i |-> 1, results |-> <<>>]]
  /\ UNCHANGED <<_entries, _entries_by_id, _entries_by_category, _last_loaded, now,
                 _initialized, app, session, call>>

\* search_score on a results list that is an attribute of the service, shared
\* by the calls in progress, instead of a local of the call
search_score_SharedResults(t) ==
  /\ tasks[t].pc = "scoring"
  /\ tasks[t].i <= Len(_entries)
  /\ LET found == KeepPositive(tasks[t].i,
                               EntryScore(_entries[tasks[t].i], tasks[t].query_lower,
                                          query_words(tasks[t].query_lower)))
     IN  tasks' = [u \in Threads |->
                     IF u = t
                       THEN [tasks[u] EXCEPT !.results = @ \o found, !.i = @ + 1]
                       ELSE IF tasks[u].pc = "scoring"
                              THEN [tasks[u] EXCEPT !.results = @ \o found]
                              ELSE tasks[u]]
  /\ UNCHANGED <<_entries, _entries_by_id, _entries_by_category, _last_loaded, now,
                 _initialized, app, session, call>>

\* search_entries, one iteration of `for entry in self._entries`: the score
\* of the entry and `if score > 0: results.append((entry, score))`
search_score(t) ==
  /\ tasks[t].pc = "scoring"
  /\ tasks[t].i <= Len(_entries)
  /\ LET found == KeepPositive(tasks[t].i,
                               EntryScore(_entries[tasks[t].i], tasks[t].query_lower,
                                          query_words(tasks[t].query_lower)))
     IN  tasks' = [tasks EXCEPT ![t].results = @ \o found, ![t].i = @ + 1]
  /\ UNCHANGED <<_entries, _entries_by_id, _entries_by_category, _last_loaded, now,
                 _initialized, app, session, call>>

\* search_entries after the loop: the sort of the local list and the return
search_return(t) ==
  /\ tasks[t].pc = "scoring"
  /\ tasks[t].i > Len(_entries)
  /\ tasks' = [tasks EXCEPT ![t] =
                 Returned(tasks[t].query, tasks[t].limit,
                          Refs(SliceTo(SortByScore(tasks[t].results, 1, <<>>),
                                       tasks[t].limit)))]
  /\ UNCHANGED <<_entries, _entries_by_id, _entries_by_category, _last_loaded, now,
                 _initialized, app, session, call>>

\* the caller has taken the returned list; the thread is free for a new call
search_collect(t) ==
  /\ tasks[t].pc = "returned"
  /\ tasks' = [tasks EXCEPT ![t] = Idle]
  /\ UNCHANGED <<_entries, _entries_by_id, _entries_by_category, _last_loaded, now,
                 _initialized, app, session, call>>

\* a process after its start-up load whose threads search at the same time
NextConcurrent ==
  \/ Startup
  \/ \E t \in Threads :
       \/ \E query \in ConcurrentQueries, limit \in ConcurrentLimits :
            search_begin(t, query, limit)
       \/ search_score(t)
       \/ search_return(t)
       \/ search_collect(t)

SpecConcurrent ==
  Init /\ [][NextConcurrent]_vars

\* every call that has returned holds what the call returns when run alone
ReturnsAsAlone ==
  \A t \in Threads :
    tasks[t].pc = "returned"
      => tasks[t].ret = search_entries_ret(_entries, tasks[t].query, tasks[t].limit)

\* C23: after the initial load, search_entries calls that run concurrently in
\* any interleaving each return what they return when run alone, and no step
\* of a call changes the store
C23_ConcurrentSearchesAreIndependent ==
  /\ []ReturnsAsAlone
  /\ [][tasks' # tasks
          => UNCHANGED <<_entries, _entries_by_id, _entries_by_category, _last_loaded>>]_vars

\* one call returned two entries while the other call was inside its scoring
\* loop, having appended to its own results
C23_Witness ==
  /\ tasks["t1"].pc = "returned"
  /\ Len(tasks["t1"].ret) = 2
  /\ tasks["t2"].pc = "scoring"
  /\ tasks["t2"].i > 1
  /\ Len(tasks["t2"].results) > 0
  /\ tasks["t2"].query # tasks["t1"].query

(***************************************************************************)
(* The health endpoints, on the services main.py puts into the module.     *)
(***************************************************************************)
\* health_check: status, given db_healthy and openai_healthy; rag_healthy is
\* the constant True
HealthStatus(db_healthy, openai_healthy) ==
  IF db_healthy /\ TRUE /\ openai_healthy THEN "healthy"
  ELSE IF db_healthy THEN "degraded"
  ELSE "unhealthy"

\* the record of a request to a health endpoint
HealthCall(op, status_code, status, database_status) ==
  [op |-> op, status_code |-> status_code, status |-> status,
   database_status |-> database_status]

\* GET /api/health: health_check
health_check ==
  /\ call' = HealthCall("health_check", 200,
                        HealthStatus(validation_results(_entries, _entries_by_category).is_valid,
                                     _initialized),
                        "")
  /\ UNCHANGED <<_entries, _entries_by_id, _entries_by_category, _last_loaded, now,
                 _initialized, app, tasks, session>>

\* detailed_health_check: the name rag_service in `rag_service.is_initialized()`;
\* health_endpoints.py defines no such name and no entry point puts one in,
\* so the lookup raises NameError
rag_service_is_initialized ==
  Raise

\* detailed_health_check: overall_healthy, an `and` chain evaluated from the
\* left, which stops at the first false operand
overall_healthy(is_valid, initialized) ==
  IF ~is_valid THEN Return(FALSE)
  ELSE IF rag_service_is_initialized = Raise THEN Raise
  ELSE IF ~rag_service_is_initialized[1] THEN Return(FALSE)
  ELSE Return(initialized)

\* GET /api/health/detailed: detailed_health_check; `except Exception` returns
\* a body with the status "unhealthy" and without the services
detailed_health_check ==
  /\ LET is_valid == validation_results(_entries, _entries_by_category).is_valid
     IN  call' = IF overall_healthy(is_valid, _initialized) = Raise
                   THEN HealthCall("detailed_health_check", 200, "unhealthy", "")
                   ELSE HealthCall("detailed_health_check", 200,
                                   IF overall_healthy(is_valid, _initialized)[1]
                                     THEN "healthy" ELSE "degraded",
                                   IF is_valid THEN "healthy" ELSE "unhealthy")
  /\ UNCHANGED <<_entries, _entries_by_id, _entries_by_category, _last_loaded, now,
                 _initialized, app, tasks, session>>

\* a process: its start-up and requests to the health endpoints
NextHealth ==
  \/ Startup
  \/ InitializeOpenAI
  \/ health_check
  \/ detailed_health_check

SpecHealth ==
  Init /\ [][NextHealth]_vars

\* C28: the health endpoints agree with validate_database: when the store is
\* valid and the OpenAI service is initialized neither health_check nor
\* detailed_health_check reports the status "unhealthy", and when the store
\* is invalid health_check reports "unhealthy"
C28_HealthAgreesWithValidation ==
  call.op \in {"health_check", "detailed_health_check"}
    => /\ (validation_results(_entries, _entries_by_category).is_valid /\ _initialized)
            => call.status # "unhealthy"
       /\ (call.op = "health_check"
             /\ ~validation_results(_entries, _entries_by_category).is_valid)
            => call.status = "unhealthy"

(***************************************************************************)
(* ChatSession.  A datetime is the reading of the clock it was taken at;   *)
(* None is <<>> and a given value v is <<v>>.                              *)
(***************************************************************************)
\* the greatest reading of the clock, and the greatest length of a context
MaxTime == 2

MaxMessages == 2

\* the datetimes a caller can pass
Times ==
  0..MaxTime

\* an Optional[datetime] argument
OptionalTimes ==
  {<<>>} \cup {<<t>> : t \in Times}

\* datetime.isoformat()
isoformat(t) ==
  <<"iso", t>>

\* ChatSession.validate_last_activity: TRUE when the validator raises
validate_last_activity_raises(v, created_at) ==
  v < created_at

\* the clock moves on
Tick ==
  /\ now < MaxTime
  /\ now' = now + 1
  /\ UNCHANGED <<_entries, _entries_by_id, _entries_by_category, _last_loaded,
                 _initialized, app, tasks, session, call>>

\* ChatSession(session_id=..., created_at=..., last_activity=...): a field
\* that is not given takes datetime.utcnow() from its default_factory, and a
\* validator runs on given values only
ChatSession(created_at, last_activity) ==
  /\ session = <<>>
  /\ LET created == IF created_at = <<>> THEN now ELSE created_at[1]
     IN  IF last_activity # <<>> /\ validate_last_activity_raises(last_activity[1], created)
           THEN /\ session' = session
                /\ call' = [op |-> "ChatSession", raised |-> TRUE]
           ELSE /\ session' = <<[created_at    |-> created,
                                 last_activity |-> IF last_activity = <<>>
                                                     THEN now ELSE last_activity[1],
                                 message_count |-> 0,
                                 context       |-> <<>>]>>
                /\ call' = [op |-> "ChatSession", raised |-> FALSE]
  /\ UNCHANGED <<_entries, _entries_by_id, _entries_by_category, _last_loaded, now,
                 _initialized, app, tasks>>

\* ChatSession.add_message
add_message(role, content, timestamp) ==
  /\ session # <<>>
  /\ Len(session[1].context) < MaxMessages
  /\ LET stamp == IF timestamp = <<>> THEN now ELSE timestamp[1]
         message == [role |-> role, content |-> content, timestamp |-> isoformat(stamp)]
     IN  session' = <<[session[1] EXCEPT !.context = Append(@, message),
                                         !.message_count = @ + 1,
                                         !.last_activity = stamp]>>
  /\ call' = [op |-> "add_message", timestamp |-> timestamp]
  /\ UNCHANGED <<_entries, _entries_by_id, _entries_by_category, _last_loaded, now,
                 _initialized, app, tasks>>

\* ChatSession.clear_context
clear_context ==
  /\ session # <<>>
  /\ session' = <<[session[1] EXCEPT !.context = <<>>, !.message_count = 0]>>
  /\ call' = [op |-> "clear_context"]
  /\ UNCHANGED <<_entries, _entries_by_id, _entries_by_category, _last_loaded, now,
                 _initialized, app, tasks>>

\* the Python slice list[start:]
SliceFrom(list, start) ==
  IF start >= 0
    THEN SubSeq(list, (IF start < Len(list) THEN start ELSE Len(list)) + 1, Len(list))
    ELSE SubSeq(list, (IF Len(list) + start > 0 THEN Len(list) + start ELSE 0) + 1, Len(list))

\* get_recent_context(self, limit=10)
DefaultRecentLimit == 10

\* the limits passed to get_recent_context
RecentLimits ==
  {0, 1, 2, DefaultRecentLimit}

\* ChatSession.get_recent_context: `self.context[-limit:] if self.context else []`
get_recent_context(limit) ==
  /\ session # <<>>
  /\ call' = [op |-> "get_recent_context", limit |-> limit,
              ret |-> IF session[1].context # <<>>
                        THEN SliceFrom(session[1].context, 0 - limit) ELSE <<>>]
  /\ UNCHANGED <<_entries, _entries_by_id, _entries_by_category, _last_loaded, now,
                 _initialized, app, tasks, session>>

\* a session object and its callers
NextSession ==
  \/ Tick
  \/ \E created_at \in OptionalTimes, last_activity \in OptionalTimes :
       ChatSession(created_at, last_activity)
  \/ \E role \in {"user", "assistant"}, timestamp \in OptionalTimes :
       add_message(role, "m", timestamp)
  \/ clear_context
  \/ \E limit \in RecentLimits : get_recent_context(limit)

SpecSession ==
  Init /\ [][NextSession]_vars

\* C29: the last_activity of a ChatSession is never earlier than its
\* created_at, at construction and after every add_message, with or without
\* a timestamp, and clear_context
C29_LastActivityNotBeforeCreation ==
  session # <<>> => session[1].last_activity >= session[1].created_at

\* the last min(limit, Len(context)) messages of a context, in their order
LastMessages(context, limit) ==
  SubSeq(context, Len(context) - (IF limit < Len(context) THEN limit ELSE Len(context)) + 1,
         Len(context))

\* C30: for every limit >= 0 get_recent_context(limit) returns no more than
\* limit messages: the last min(limit, number of messages) messages of the
\* conversation in their order
C30_RecentContextAtMostLimit ==
  (call.op = "get_recent_context" /\ call.limit >= 0)
    => /\ Len(call.ret) <= call.limit
       /\ call.ret = LastMessages(session[1].context, call.limit)

====
